---- MODULE Spec2Model ----
(***************************************************************************)
(* A model of the voxel geometry engine of the event-cube application      *)
(* (src/utils/voxelEngine.ts): the statistics, the three orthographic      *)
(* projections, the annotation grids and the reconstruction of a voxel     *)
(* list from three silhouettes.  The engine's functions are pure; each is  *)
(* an operator computed the way the code computes it, and the              *)
(* specifications draw inputs from bounded sets and apply the functions.   *)
(***************************************************************************)
EXTENDS Integers, Sequences, FiniteSets, TLC

\* src/constants.ts: the reference configuration.
GRID_SIZE == 5
MAX_HEIGHT == 5

\* Bounds of the model.
MaxVoxels == 2
MaxCells == 2
MaxDim == 3

VARIABLES
    gridSize,   \* the value GRID_SIZE has in the build (GRID_SIZE itself in Spec)
    maxHeight,  \* the value MAX_HEIGHT has in the build (MAX_HEIGHT itself in Spec)
    voxels,     \* the voxel list handed to the engine
    grids,      \* the GridState handed to intersect2DTo3D
    out,        \* the result of the function applied last
    pc          \* which function was applied last

\* The editor (src/App.tsx), whose voxel list is the variable voxels.
VARIABLES
    mode,           \* ViewMode
    tool,           \* 'build' | 'erase'
    selectedColor,  \* the color given to added and generated voxels
    blueprint,      \* the GridState edited in 2d-blueprint mode
    rowIdentity,    \* per view and row of blueprint, the array object holding the row
    stageProps,     \* what the canvas tree was last committed with
    pending,        \* how many handlers ran since the canvas tree was committed
    request         \* the handler invoked last, with its arguments

\* The share link (src/utils/shareUtils.ts).
VARIABLE encoded    \* the string handed to decodeVoxels

\* The quiz (src/App.tsx, src/components/QuizMode.tsx).
VARIABLES
    quiz,       \* App's quiz state: isQuizMode, quizVoxels, quizState, userAnswer, ...
    quizMode,   \* QuizMode's state, the isSubmitted its handlers captured, its interval
    rendered,   \* what the screen was last committed with
    delivered   \* the answers handed to onSubmit in the current quiz session

quizVars == <<quiz, quizMode, rendered, delivered>>

appVars == <<mode, tool, selectedColor, blueprint, rowIdentity, stageProps, pending, request>>

vars == <<gridSize, maxHeight, voxels, grids, out, pc, appVars, encoded, quizVars>>

-----------------------------------------------------------------------------
(* JavaScript values.  A function that may throw yields a completion: its  *)
(* value, or the exception thrown.  undefined[i] throws a TypeError.       *)

Normal(v) == [type |-> "normal", value |-> v]
Throw(e) == [type |-> "throw", value |-> e]
TypeError == "TypeError"

\* number | null: the empty sequence is null, <<n>> the number n.
Null == << >>
Num(n) == <<n>>

\* `${x},${y},${z}`
coordKey(x, y, z) == ToString(x) \o "," \o ToString(y) \o "," \o ToString(z)

\* A Voxel (src/types.ts); the engine never reads its optional color.
Voxel(x, y, z) == [x |-> x, y |-> y, z |-> z, id |-> coordKey(x, y, z)]

\* Array(rows).fill(null).map(() => Array(cols).fill(val))
newGrid(rows, cols, val) == [r \in 0..(rows - 1) |-> [c \in 0..(cols - 1) |-> val]]

-----------------------------------------------------------------------------
(* calculateStats *)

getVoxelSet(vs) == {coordKey(vs[i].x, vs[i].y, vs[i].z) : i \in 1..Len(vs)}

neighbors(v) ==
    << [x |-> v.x + 1, y |-> v.y, z |-> v.z],
       [x |-> v.x - 1, y |-> v.y, z |-> v.z],
       [x |-> v.x, y |-> v.y + 1, z |-> v.z],
       [x |-> v.x, y |-> v.y - 1, z |-> v.z],
       [x |-> v.x, y |-> v.y, z |-> v.z + 1],
       [x |-> v.x, y |-> v.y, z |-> v.z - 1] >>

\* Mutant: the face towards y = -1 rests on an implicit ground plane and is not counted.
exposedFacesGround(v, voxelSet) ==
    Cardinality({k \in 1..6 :
        /\ neighbors(v)[k].y >= 0
        /\ coordKey(neighbors(v)[k].x, neighbors(v)[k].y, neighbors(v)[k].z) \notin voxelSet})

\* The inner forEach: the faces of v whose neighbour key is not in the set.
exposedFaces(v, voxelSet) ==
    Cardinality({k \in 1..6 :
        coordKey(neighbors(v)[k].x, neighbors(v)[k].y, neighbors(v)[k].z) \notin voxelSet})

\* voxels.forEach over vs[lo..hi], in order; the range is halved to keep the
\* evaluation shallow on long lists.
RECURSIVE surfaceFrom(_, _, _, _)
surfaceFrom(vs, lo, hi, voxelSet) ==
    IF lo > hi THEN 0
    ELSE IF lo = hi THEN exposedFaces(vs[lo], voxelSet)
    ELSE LET mid == (lo + hi) \div 2
         IN  surfaceFrom(vs, lo, mid, voxelSet) + surfaceFrom(vs, mid + 1, hi, voxelSet)

calculateStats(vs) ==
    LET voxelSet == getVoxelSet(vs)
        count == Len(vs)
    IN  [count |-> count, volume |-> count, surfaceArea |-> surfaceFrom(vs, 1, Len(vs), voxelSet)]

-----------------------------------------------------------------------------
(* project3DTo2D *)

\* grid[r][c] = true.  grid[r] is undefined for r outside the rows: a TypeError.
\* (The code guards c, so c is a column of the row.)
setCell(grid, r, c) ==
    IF r \notin DOMAIN grid THEN Throw(TypeError)
    ELSE Normal([grid EXCEPT ![r][c] = TRUE])

\* Mutant: the top cell marked for x > 0 only.
markTopStrict(top, v) ==
    IF v.x > 0 /\ v.x < gridSize /\ v.z >= 0 /\ v.z < gridSize
    THEN setCell(top, v.z, v.x)
    ELSE Normal(top)

\* Mutant: the top cell marked without the range test on z.
markTopUnguarded(top, v) ==
    IF v.x >= 0 /\ v.x < gridSize
    THEN setCell(top, v.z, v.x)
    ELSE Normal(top)

\* Top view: Z is row, X is col.
markTop(top, v) ==
    IF v.x >= 0 /\ v.x < gridSize /\ v.z >= 0 /\ v.z < gridSize
    THEN setCell(top, v.z, v.x)
    ELSE Normal(top)

\* Mutant: the front row taken as y, not inverted.
markFrontUpright(front, v) ==
    IF v.x >= 0 /\ v.x < gridSize /\ v.y >= 0 /\ v.y < maxHeight
    THEN setCell(front, v.y, v.x)
    ELSE Normal(front)

\* Front view: Y is inverted row, X is col.
markFront(front, v) ==
    IF v.x >= 0 /\ v.x < gridSize /\ v.y >= 0 /\ v.y < maxHeight
    THEN setCell(front, maxHeight - 1 - v.y, v.x)
    ELSE Normal(front)

\* Side view: Y is inverted row, Z is col.
markSide(side, v) ==
    IF v.z >= 0 /\ v.z < gridSize /\ v.y >= 0 /\ v.y < maxHeight
    THEN setCell(side, maxHeight - 1 - v.y, v.z)
    ELSE Normal(side)

\* One turn of the forEach, on the three grids so far.
projectVoxel(g, v) ==
    LET top == markTop(g.top, v)
        front == IF top.type = "throw" THEN top ELSE markFront(g.front, v)
        side == IF front.type = "throw" THEN front ELSE markSide(g.side, v)
    IN  IF side.type = "throw" THEN side
        ELSE Normal([top |-> top.value, front |-> front.value, side |-> side.value])

\* voxels.forEach over vs[lo..hi], in order, until a turn throws.
RECURSIVE projectFrom(_, _, _, _)
projectFrom(vs, lo, hi, g) ==
    IF lo > hi THEN Normal(g)
    ELSE IF lo = hi THEN projectVoxel(g, vs[lo])
    ELSE LET mid == (lo + hi) \div 2
             left == projectFrom(vs, lo, mid, g)
         IN  IF left.type = "throw" THEN left ELSE projectFrom(vs, mid + 1, hi, left.value)

project3DTo2D(vs) ==
    projectFrom(vs, 1, Len(vs),
                [top |-> newGrid(gridSize, gridSize, FALSE),
                 front |-> newGrid(gridSize, gridSize, FALSE),
                 side |-> newGrid(gridSize, gridSize, FALSE)])

-----------------------------------------------------------------------------
(* intersect2DTo3D *)

\* grid[r][c] as a condition: grid[r] undefined throws, grid[r][c] undefined is falsy.
readCell(grid, r, c) ==
    IF r \notin DOMAIN grid THEN Throw(TypeError)
    ELSE IF c \notin DOMAIN grid[r] THEN Normal(FALSE)
    ELSE Normal(grid[r][c])

\* for c ascending, for r ascending: the first c with grid[r][c]; -1 when there is none.
RECURSIVE scanColumns(_, _, _)
scanColumns(grid, c, r) ==
    IF c >= gridSize THEN Normal(-1)
    ELSE IF r >= gridSize THEN scanColumns(grid, c + 1, 0)
    ELSE LET cell == readCell(grid, r, c)
         IN  IF cell.type = "throw" THEN cell
             ELSE IF cell.value THEN Normal(c)
             ELSE scanColumns(grid, c, r + 1)

\* Mutant: the two loops swapped, so that the column of the first true cell in
\* row-major order is returned.
RECURSIVE scanRowsForColumn(_, _, _)
scanRowsForColumn(grid, r, c) ==
    IF r >= gridSize THEN Normal(-1)
    ELSE IF c >= gridSize THEN scanRowsForColumn(grid, r + 1, 0)
    ELSE LET cell == readCell(grid, r, c)
         IN  IF cell.type = "throw" THEN cell
             ELSE IF cell.value THEN Normal(c)
             ELSE scanRowsForColumn(grid, r, c + 1)

getFirstActiveColumnRowMajor(grid) == scanRowsForColumn(grid, 0, 0)

getFirstActiveColumn(grid) == scanColumns(grid, 0, 0)

\* rowLoop: for r ascending, for c ascending: the first r with grid[r][c]; -1 when none.
RECURSIVE rowLoop(_, _, _)
rowLoop(grid, r, c) ==
    IF r >= gridSize THEN Normal(-1)
    ELSE IF c >= gridSize THEN rowLoop(grid, r + 1, 0)
    ELSE LET cell == readCell(grid, r, c)
         IN  IF cell.type = "throw" THEN cell
             ELSE IF cell.value THEN Normal(r)
             ELSE rowLoop(grid, r, c + 1)

\* Mutant: no alignment, the views are looked up where they are.
shiftNone(minTop, minView) == 0

\* Mutant: the shift taken from the view towards the top view.
shiftReversed(minTop, minView) ==
    IF minTop # -1 /\ minView # -1 THEN minTop - minView ELSE 0

\* (minTop !== -1 && minView !== -1) ? (minView - minTop) : 0
shift(minTop, minView) ==
    IF minTop # -1 /\ minView # -1 THEN minView - minTop ELSE 0

\* Step 1 of intersect2DTo3D: the four starts and the two shifts.
alignment(g) ==
    LET minX_Top == getFirstActiveColumn(g.top)
        minZ_Top == rowLoop(g.top, 0, 0)
        minX_Front == getFirstActiveColumn(g.front)
        minZ_Side == getFirstActiveColumn(g.side)
    IN  IF \/ minX_Top.type = "throw" \/ minZ_Top.type = "throw"
           \/ minX_Front.type = "throw" \/ minZ_Side.type = "throw"
        THEN Throw(TypeError)
        ELSE Normal(
            [minX_Top |-> minX_Top.value, minZ_Top |-> minZ_Top.value,
             minX_Front |-> minX_Front.value, minZ_Side |-> minZ_Side.value,
             shiftX |-> shift(minX_Top.value, minX_Front.value),
             shiftZ |-> shift(minZ_Top.value, minZ_Side.value)])

\* Mutant: the front row taken as y, not inverted.
hasFrontUpright(g, y, frontX) ==
    IF frontX >= 0 /\ frontX < gridSize
    THEN readCell(g.front, y, frontX)
    ELSE Normal(FALSE)

hasFront(g, y, frontX) ==
    IF frontX >= 0 /\ frontX < gridSize
    THEN readCell(g.front, maxHeight - 1 - y, frontX)
    ELSE Normal(FALSE)

\* Mutant: the side row taken as y, not inverted.
hasSideUpright(g, y, sideZ) ==
    IF sideZ >= 0 /\ sideZ < gridSize
    THEN readCell(g.side, y, sideZ)
    ELSE Normal(FALSE)

hasSide(g, y, sideZ) ==
    IF sideZ >= 0 /\ sideZ < gridSize
    THEN readCell(g.side, maxHeight - 1 - y, sideZ)
    ELSE Normal(FALSE)

\* A variant of the loop body that does not consult the side silhouette.
intersectAtIgnoringSide(g, shiftX, shiftZ, x, y, z, newVoxels) ==
    LET top == readCell(g.top, z, x)
        front == hasFront(g, y, x + shiftX)
    IN  IF top.type = "throw" \/ front.type = "throw"
        THEN Throw(TypeError)
        ELSE IF top.value /\ front.value
             THEN Normal(Append(newVoxels, Voxel(x, y, z)))
             ELSE Normal(newVoxels)

\* The body of the triple loop at (x, y, z), on the voxels pushed so far.
intersectAt(g, shiftX, shiftZ, x, y, z, newVoxels) ==
    LET top == readCell(g.top, z, x)
        front == hasFront(g, y, x + shiftX)
        side == hasSide(g, y, z + shiftZ)
    IN  IF top.type = "throw" \/ front.type = "throw" \/ side.type = "throw"
        THEN Throw(TypeError)
        ELSE IF top.value /\ front.value /\ side.value
             THEN Normal(Append(newVoxels, Voxel(x, y, z)))
             ELSE Normal(newVoxels)

\* for (let z = ...; z < GRID_SIZE; z++)
RECURSIVE loopZ(_, _, _, _, _, _, _)
loopZ(g, shiftX, shiftZ, x, y, z, newVoxels) ==
    IF z >= gridSize THEN Normal(newVoxels)
    ELSE LET turn == intersectAt(g, shiftX, shiftZ, x, y, z, newVoxels)
         IN  IF turn.type = "throw" THEN turn
             ELSE loopZ(g, shiftX, shiftZ, x, y, z + 1, turn.value)

\* for (let y = ...; y < MAX_HEIGHT; y++)
RECURSIVE loopY(_, _, _, _, _, _)
loopY(g, shiftX, shiftZ, x, y, newVoxels) ==
    IF y >= maxHeight THEN Normal(newVoxels)
    ELSE LET turn == loopZ(g, shiftX, shiftZ, x, y, 0, newVoxels)
         IN  IF turn.type = "throw" THEN turn
             ELSE loopY(g, shiftX, shiftZ, x, y + 1, turn.value)

\* for (let x = ...; x < GRID_SIZE; x++)
RECURSIVE loopX(_, _, _, _, _)
loopX(g, shiftX, shiftZ, x, newVoxels) ==
    IF x >= gridSize THEN Normal(newVoxels)
    ELSE LET turn == loopY(g, shiftX, shiftZ, x, 0, newVoxels)
         IN  IF turn.type = "throw" THEN turn
             ELSE loopX(g, shiftX, shiftZ, x + 1, turn.value)

intersect2DTo3D(g) ==
    LET a == alignment(g)
    IN  IF a.type = "throw" THEN a
        ELSE loopX(g, a.value.shiftX, a.value.shiftZ, 0, << >>)

-----------------------------------------------------------------------------
(* generateTopViewNumbers, generateFrontViewNumbers, generateSideViewNumbers *)

\* grid.map(row => row.map(val => val === 0 ? null : val))
nullZeros(grid) ==
    [r \in DOMAIN grid |-> [c \in DOMAIN grid[r] |->
        IF grid[r][c] = 0 THEN Null ELSE Num(grid[r][c])]]

\* Mutant: the height written without the comparison, so that the last voxel wins.
topNumbersVoxelLast(grid, v) ==
    IF v.z \notin DOMAIN grid THEN Throw(TypeError)
    ELSE IF v.x \in DOMAIN grid[v.z]
         THEN Normal([grid EXCEPT ![v.z][v.x] = v.y + 1])
         ELSE Normal(grid)

\* if (grid[v.z][v.x] < v.y + 1) grid[v.z][v.x] = v.y + 1: grid[v.z] undefined throws,
\* grid[v.z][v.x] undefined compares false.
topNumbersVoxel(grid, v) ==
    IF v.z \notin DOMAIN grid THEN Throw(TypeError)
    ELSE IF v.x \in DOMAIN grid[v.z] /\ grid[v.z][v.x] < v.y + 1
         THEN Normal([grid EXCEPT ![v.z][v.x] = v.y + 1])
         ELSE Normal(grid)

\* voxels.forEach over vs[lo..hi], in order, until a turn throws.
RECURSIVE topNumbersFrom(_, _, _, _)
topNumbersFrom(vs, lo, hi, grid) ==
    IF lo > hi THEN Normal(grid)
    ELSE IF lo = hi THEN topNumbersVoxel(grid, vs[lo])
    ELSE LET mid == (lo + hi) \div 2
             left == topNumbersFrom(vs, lo, mid, grid)
         IN  IF left.type = "throw" THEN left
             ELSE topNumbersFrom(vs, mid + 1, hi, left.value)

generateTopViewNumbers(vs) ==
    LET grid == topNumbersFrom(vs, 1, Len(vs), newGrid(gridSize, gridSize, 0))
    IN  IF grid.type = "throw" THEN grid ELSE Normal(nullZeros(grid.value))

\* grid[row][col] += 1 when row and col are in range; col is v.z for the side view.
countVoxel(grid, v, useZ) ==
    LET row == maxHeight - 1 - v.y
        col == IF useZ THEN v.z ELSE v.x
    IN  IF row >= 0 /\ row < maxHeight /\ col >= 0 /\ col < gridSize
        THEN Normal([grid EXCEPT ![row][col] = @ + 1])
        ELSE Normal(grid)

\* voxels.forEach over vs[lo..hi], in order (no turn throws).
RECURSIVE countFrom(_, _, _, _, _)
countFrom(vs, lo, hi, grid, useZ) ==
    IF lo > hi THEN Normal(grid)
    ELSE IF lo = hi THEN countVoxel(grid, vs[lo], useZ)
    ELSE LET mid == (lo + hi) \div 2
             left == countFrom(vs, lo, mid, grid, useZ)
         IN  IF left.type = "throw" THEN left
             ELSE countFrom(vs, mid + 1, hi, left.value, useZ)

generateFrontViewNumbers(vs) ==
    nullZeros(countFrom(vs, 1, Len(vs), newGrid(maxHeight, gridSize, 0), FALSE).value)

generateSideViewNumbers(vs) ==
    nullZeros(countFrom(vs, 1, Len(vs), newGrid(maxHeight, gridSize, 0), TRUE).value)

-----------------------------------------------------------------------------
(* The inputs. *)

SeqsUpTo(S, n) == UNION {[1..k -> S] : k \in 0..n}

VoxelsOver(xs, ys, zs) == {Voxel(x, y, z) : x \in xs, y \in ys, z \in zs}

\* In-bounds voxels near the origin and on the far border: neighbours, stacks, borders.
NearFarVoxels ==
    VoxelsOver({0, 1, GRID_SIZE - 1}, {0, 1}, {0, GRID_SIZE - 1})

\* Voxels with each coordinate in the grid or just outside it.
StrayVoxels == VoxelsOver({0, GRID_SIZE}, {-1, 0}, {-1, 0, GRID_SIZE})

\* Every single voxel, in bounds or one step outside.
AnyVoxels == VoxelsOver(-1..GRID_SIZE, -1..MAX_HEIGHT, -1..GRID_SIZE)

\* The fully filled cube, in the order of a triple loop.
FullCube ==
    [n \in 1..(GRID_SIZE * MAX_HEIGHT * GRID_SIZE) |->
        Voxel((n - 1) \div (MAX_HEIGHT * GRID_SIZE),
              ((n - 1) \div GRID_SIZE) % MAX_HEIGHT,
              (n - 1) % GRID_SIZE)]

VoxelInputs ==
    SeqsUpTo(NearFarVoxels, MaxVoxels) \cup SeqsUpTo(StrayVoxels, MaxVoxels)
        \cup {<<v>> : v \in AnyVoxels} \cup {FullCube}

\* The grid whose true cells are `cells`, a set of <<row, column>>.
gridOf(cells) ==
    [r \in 0..(GRID_SIZE - 1) |-> [c \in 0..(GRID_SIZE - 1) |-> <<r, c>> \in cells]]

GridsOver(window) == {gridOf(S) : S \in {T \in SUBSET window : Cardinality(T) <= MaxCells}}

\* Silhouettes drawn independently: top in the first and last row (z), front in columns
\* 1 and 3, side in its first two columns, front and side in the two lowest layers.
GridInputs ==
    [top : GridsOver({0, GRID_SIZE - 1} \X {0, 1, GRID_SIZE - 1}),
     front : GridsOver({MAX_HEIGHT - 2, MAX_HEIGHT - 1} \X {1, 3}),
     side : GridsOver({MAX_HEIGHT - 2, MAX_HEIGHT - 1} \X {0, 1})]

\* App's initial blueprint: all false.
emptyGrids ==
    [top |-> newGrid(gridSize, gridSize, FALSE),
     front |-> newGrid(gridSize, gridSize, FALSE),
     side |-> newGrid(gridSize, gridSize, FALSE)]

-----------------------------------------------------------------------------
(* The editor (src/App.tsx): its state, and the handlers as functions of   *)
(* the values their closures captured and of the latest state.             *)

\* src/constants.ts
VOXEL_COLORS == <<"#F59E0B", "#EC4899", "#3B82F6", "#10B981">>
voxelDefault == VOXEL_COLORS[1]
INITIAL_VOXELS == << >>

Views == {"top", "front", "side"}

\* Array(GRID_SIZE).fill(row): every row of the grid is the one array object 0.
replicatedRows == [r \in 0..(gridSize - 1) |-> 0]
\* Array.prototype.map with a callback that builds a row: row r is its own array object.
mappedRows == [r \in 0..(gridSize - 1) |-> r]

initialIdentity == [view \in Views |-> replicatedRows]
mappedIdentity == [view \in Views |-> mappedRows]

\* { ...v, color }
colored(v, color) == [x |-> v.x, y |-> v.y, z |-> v.z, id |-> v.id, color |-> color]

\* What the handlers in the CubeStage props of a render captured (App.tsx 69-103): the
\* render's voxels, mode, tool and selectedColor.  In 3d-edit mode the render's voxels
\* are the voxels prop too (App.tsx 346-348).
stagePropsOf(vs, m, t, color) ==
    [voxels |-> vs, mode |-> m, tool |-> t, selectedColor |-> color]

\* voxels.some(v => v.x === x && v.y === y && v.z === z), on the captured list.
collides(captured, x, y, z) ==
    \E i \in 1..Len(captured) :
        captured[i].x = x /\ captured[i].y = y /\ captured[i].z = z

\* handleAddVoxel as it was captured in props, applied to the latest list prev.
handleAddVoxel(props, x, y, z, prev) ==
    IF props.mode = "2d-blueprint" THEN prev
    ELSE IF x < 0 \/ x >= gridSize \/ z < 0 \/ z >= gridSize \/ y < 0 \/ y >= maxHeight
    THEN prev
    ELSE IF collides(props.voxels, x, y, z) THEN prev
    ELSE Append(prev, colored(Voxel(x, y, z), props.selectedColor))

\* A variant of the filter with the comparison inverted.
keepById(prev, id) == SelectSeq(prev, LAMBDA v : v.id = id)

\* prev.filter(v => v.id !== id)
removeById(prev, id) == SelectSeq(prev, LAMBDA v : v.id # id)

\* handleRemoveVoxel as it was captured in props, applied to the latest list prev.
handleRemoveVoxel(props, id, prev) ==
    IF props.mode = "2d-blueprint" THEN prev ELSE removeById(prev, id)

\* A variant of the toggle that writes the cell into the row's array object.
toggleInPlace(grid, identity, r, c) ==
    [rIdx \in DOMAIN grid |->
        [cIdx \in DOMAIN grid[rIdx] |->
            IF identity[rIdx] = identity[r] /\ cIdx = c
            THEN ~grid[rIdx][cIdx] ELSE grid[rIdx][cIdx]]]

\* prev[view].map((row, rIdx) => row.map((val, cIdx) => rIdx === r && cIdx === c ? !val : val))
toggleMapped(grid, identity, r, c) ==
    [rIdx \in DOMAIN grid |->
        [cIdx \in DOMAIN grid[rIdx] |->
            IF rIdx = r /\ cIdx = c THEN ~grid[rIdx][cIdx] ELSE grid[rIdx][cIdx]]]

\* generateFromBlueprint with the default color in place of the selected one
generateInDefaultColor(bp, color) ==
    LET newVoxels == intersect2DTo3D(bp)
    IN  IF newVoxels.type = "throw" THEN newVoxels
        ELSE Normal([i \in 1..Len(newVoxels.value) |-> colored(newVoxels.value[i], voxelDefault)])

\* generateFromBlueprint: the list handed to setVoxels
generateFromBlueprint(bp, color) ==
    LET newVoxels == intersect2DTo3D(bp)
    IN  IF newVoxels.type = "throw" THEN newVoxels
        ELSE Normal([i \in 1..Len(newVoxels.value) |-> colored(newVoxels.value[i], color)])

\* A variant of clearAll that leaves the blueprint as it is.
clearVoxelsOnly == [voxels |-> << >>, blueprint |-> blueprint, rowIdentity |-> rowIdentity]

\* clearAll: setVoxels([]) and setBlueprint of three grids of one replicated row each.
clearAll == [voxels |-> << >>, blueprint |-> emptyGrids, rowIdentity |-> initialIdentity]

\* A variant of the effect that never replaces the blueprint.
modeEffectNever(renderedMode, m, currentProjections, bp) == bp

\* useEffect(() => { if (mode === '2d-blueprint') setBlueprint(currentProjections) },
\* [mode]): the blueprint after the render in which mode is m, renderedMode being the
\* mode of the render before.
modeEffect(renderedMode, m, currentProjections, bp) ==
    IF m # renderedMode /\ m = "2d-blueprint" THEN currentProjections ELSE bp

\* The derived state of a render (App.tsx 48 and 345-348).
stats == calculateStats(voxels)
stageVoxels == IF mode = "3d-edit" THEN voxels ELSE intersect2DTo3D(blueprint).value

noRequest == [op |-> "none", at |-> << >>, view |-> ""]
\* The editor as App constructs it.
EditorInitial ==
    /\ mode = "3d-edit"
    /\ tool = "build"
    /\ selectedColor = voxelDefault
    /\ blueprint = emptyGrids
    /\ rowIdentity = initialIdentity
    /\ stageProps = stagePropsOf(INITIAL_VOXELS, "3d-edit", "build", voxelDefault)
    /\ pending = 0
    /\ request = noRequest

-----------------------------------------------------------------------------
(* The share link (src/utils/shareUtils.ts).  A scalar JavaScript value    *)
(* carries its kind; an object { x, y, z, c } holds a scalar per property, *)
(* absent for a property it lacks; a JSON text is written as the document  *)
(* it spells; a string is written by how it was made: the JSON text of a   *)
(* document, wrapped in percent-encoding and Base64, or other characters.  *)

Scalar(kind, num, str) == [kind |-> kind, num |-> num, str |-> str]
jsUndefined == Scalar("undefined", 0, "")
jsNull == Scalar("null", 0, "")
jsInfinity == Scalar("Infinity", 0, "")
JsNum(n) == Scalar("number", n, "")
JsStr(s) == Scalar("string", 0, s)
\* A number literal of a JSON text beyond Number.MAX_VALUE, such as 1e999.
jsonHuge == Scalar("literal", 0, "1e999")
\* What an object holds for a property it lacks.
absent == Scalar("absent", 0, "")
jsObject == Scalar("object", 0, "")
jsArray == Scalar("array", 0, "")

\* An element of an array: an object, or a scalar.
JsObj(x, y, z, c) == [self |-> jsObject, x |-> x, y |-> y, z |-> z, c |-> c]
JsAtom(s) == [self |-> s, x |-> absent, y |-> absent, z |-> absent, c |-> absent]

\* A value JSON.parse returns or JSON.stringify takes: an array of elements,
\* or what is no array.
JsArr(items) == [top |-> JsAtom(jsArray), items |-> items]
JsTop(node) == [top |-> node, items |-> << >>]
isArray(value) == value.top.self.kind = "array"

Json(doc) == [layers |-> <<"json">>, chars |-> "", doc |-> doc]
Uri(s) == [s EXCEPT !.layers = <<"uri">> \o @]
Base64(s) == [s EXCEPT !.layers = <<"base64">> \o @]
Chars(s) == [layers |-> << >>, chars |-> s, doc |-> JsTop(JsAtom(jsUndefined))]

SyntaxError == "SyntaxError"
URIError == "URIError"
InvalidCharacterError == "InvalidCharacterError"

\* typeof v === 'number'
isNumber(v) == v.kind \in {"number", "Infinity"}

\* ToBoolean, as || applies it
truthy(v) ==
    CASE v.kind \in {"undefined", "null"} -> FALSE
      [] v.kind = "string" -> v.str # ""
      [] v.kind = "number" -> v.num # 0
      [] OTHER -> TRUE

\* v[key]: reading a property of null or undefined throws
get(v, key) ==
    IF v.self.kind \in {"undefined", "null"} THEN Throw(TypeError)
    ELSE IF v.self.kind = "object" /\ v[key].kind # "absent" THEN Normal(v[key])
    ELSE Normal(jsUndefined)

\* `${v}`
toText(v) ==
    CASE v.kind = "number" -> ToString(v.num)
      [] v.kind = "string" -> v.str
      [] v.kind = "Infinity" -> "Infinity"
      [] v.kind = "undefined" -> "undefined"
      [] v.kind = "null" -> "null"

\* JSON.stringify: the document of a value.  A property holding undefined
\* is left out, undefined in an array and a non-finite number become null.
stringifyProperty(v) ==
    CASE v.kind = "undefined" -> absent
      [] v.kind = "Infinity" -> jsNull
      [] OTHER -> v

stringifyElement(v) ==
    IF v.self.kind = "object"
    THEN JsObj(stringifyProperty(v.x), stringifyProperty(v.y),
               stringifyProperty(v.z), stringifyProperty(v.c))
    ELSE IF v.self.kind \in {"undefined", "Infinity"} THEN JsAtom(jsNull)
    ELSE v

stringify(value) ==
    [top |-> stringifyElement(value.top),
     items |-> [i \in 1..Len(value.items) |-> stringifyElement(value.items[i])]]

\* JSON.parse: the value of a JSON text; any other string is a SyntaxError.
reviveScalar(v) == IF v.kind = "literal" THEN jsInfinity ELSE v

reviveElement(v) ==
    [self |-> reviveScalar(v.self), x |-> reviveScalar(v.x), y |-> reviveScalar(v.y),
     z |-> reviveScalar(v.z), c |-> reviveScalar(v.c)]

reviveDoc(doc) ==
    [top |-> reviveElement(doc.top),
     items |-> [i \in 1..Len(doc.items) |-> reviveElement(doc.items[i])]]

parse(s) == IF s.layers = <<"json">> THEN Normal(reviveDoc(s.doc)) ELSE Throw(SyntaxError)

\* encodeURIComponent: the strings written here hold no lone surrogate
encodeURIComponent(s) == Normal(Uri(s))

\* decodeURIComponent: undoes the percent-encoding, leaves a string without
\* '%' as it is, and throws on a '%' that starts no escape
decodeURIComponent(s) ==
    IF Len(s.layers) > 0 /\ Head(s.layers) = "uri"
    THEN Normal([s EXCEPT !.layers = Tail(@)])
    ELSE IF Len(s.layers) = 0 /\ s.chars = "%" THEN Throw(URIError)
    ELSE Normal(s)

\* btoa: a percent-encoded string is within Latin1
btoa(s) == Normal(Base64(s))

\* atob: throws on a string that is not Base64 ('' is the Base64 of '')
atob(s) ==
    IF Len(s.layers) > 0 /\ Head(s.layers) = "base64"
    THEN Normal([s EXCEPT !.layers = Tail(@)])
    ELSE IF Len(s.layers) = 0 /\ s.chars = "" THEN Normal(s)
    ELSE Throw(InvalidCharacterError)

\* v => ({ x: v.x, y: v.y, z: v.z, c: v.color || undefined })
compact(v) == JsObj(v.x, v.y, v.z, IF truthy(v.color) THEN v.color ELSE jsUndefined)

encodeVoxels(vs) ==
    LET compactData == JsArr([i \in 1..Len(vs) |-> compact(vs[i])])
        jsonString == Json(stringify(compactData))
        escaped == encodeURIComponent(jsonString)
        base64 == IF escaped.type = "throw" THEN escaped ELSE btoa(escaped.value)
    IN  IF base64.type = "throw" THEN Chars("") ELSE base64.value

\* v => ({ x: v.x, y: v.y, z: v.z, id: `${v.x},${v.y},${v.z}`, color: v.c })
expand(v) ==
    LET x == get(v, "x")
        y == get(v, "y")
        z == get(v, "z")
        c == get(v, "c")
    IN  IF x.type = "throw" THEN x
        ELSE Normal([x |-> x.value, y |-> y.value, z |-> z.value,
                     id |-> toText(x.value) \o "," \o toText(y.value) \o ","
                                \o toText(z.value),
                     color |-> c.value])

\* Voxel[] | null
nullVoxels == [kind |-> "null", list |-> << >>]
VoxelArray(vs) == [kind |-> "array", list |-> vs]

decodeVoxels(s) ==
    LET decoded == atob(s)
        jsonString == IF decoded.type = "throw" THEN decoded
                      ELSE decodeURIComponent(decoded.value)
        compactData == IF jsonString.type = "throw" THEN jsonString
                       ELSE parse(jsonString.value)
    IN  IF compactData.type = "throw" THEN nullVoxels
        ELSE IF ~isArray(compactData.value) THEN nullVoxels
        ELSE LET elements == compactData.value.items
                 mapped == [i \in 1..Len(elements) |-> expand(elements[i])]
             IN  IF \E i \in 1..Len(elements) : mapped[i].type = "throw" THEN nullVoxels
                 ELSE VoxelArray([i \in 1..Len(elements) |-> mapped[i].value])

-----------------------------------------------------------------------------
(* The quiz (src/App.tsx 38-43 and 146-210, src/components/QuizMode.tsx).   *)
(* quiz is App's quiz state after every update queued so far; rendered is  *)
(* what the screen was last committed with, which decides the buttons that *)
(* exist and the values the handlers of QuizMode captured.                 *)

quizInitial ==
    [isQuizMode |-> FALSE, quizVoxels |-> << >>, quizState |-> "playing",
     userAnswer |-> 0, quizTimer |-> 0, showResultModal |-> FALSE]

\* QuizMode when it is not part of the screen.
unmounted ==
    [mounted |-> FALSE, remainingTime |-> 0, isSubmitted |-> FALSE,
     captured |-> FALSE, interval |-> FALSE]

\* What a render of App shows.
renderedOf(q) ==
    [isQuizMode |-> q.isQuizMode, quizState |-> q.quizState,
     showResultModal |-> q.showResultModal]

\* isQuizMode && quizState === 'playing' && <QuizMode ... />
showsQuizMode(q) == q.isQuizMode /\ q.quizState = "playing"

\* isQuizMode && quizState === 'revealed' && <QuizResult ... />
showsQuizResult(q) == q.isQuizMode /\ q.quizState = "revealed"

\* A submission that always counts as wrong.
handleQuizSubmitAsWrong(q, answer) ==
    [q EXCEPT !.userAnswer = answer, !.quizState = "incorrect", !.showResultModal = TRUE]

\* handleQuizSubmit
handleQuizSubmit(q, answer) ==
    LET correctAnswer == Len(q.quizVoxels)
        isCorrect == answer = correctAnswer
    IN  [q EXCEPT !.userAnswer = answer,
                  !.quizState = IF isCorrect THEN "correct" ELSE "incorrect",
                  !.showResultModal = TRUE]

\* handleRevealResult
handleRevealResult(q) == [q EXCEPT !.showResultModal = FALSE, !.quizState = "revealed"]

\* handleExitQuizMode (clearQuizFromUrl touches the address bar only)
handleExitQuizMode(q) ==
    [q EXCEPT !.isQuizMode = FALSE, !.quizVoxels = << >>, !.quizState = "playing",
              !.userAnswer = 0]

\* handleStartQuiz, past its check of voxels.length
handleStartQuiz(q, vs) ==
    [q EXCEPT !.quizVoxels = vs, !.isQuizMode = TRUE, !.quizState = "playing",
              !.quizTimer = 0, !.userAnswer = 0]

\* The effect of the first render, past its checks of the puzzle parameter.
loadQuiz(q, decodedVoxels, timer) ==
    [q EXCEPT !.quizVoxels = decodedVoxels, !.isQuizMode = TRUE, !.quizState = "playing",
              !.quizTimer = timer]

\* parseTimerFromUrl, of the number the timer parameter starts with (NaN: none)
parseTimerFromUrl(timerParam) ==
    IF timerParam = Null THEN 0
    ELSE IF timerParam[1] > 0 THEN timerParam[1] ELSE 0

\* handleSubmit: whether the call goes through to onSubmit
submits(qm) == ~qm.captured

\* The updater of setRemainingTime, stepping by two.
countDownByTwo(prev) == IF prev <= 1 THEN 0 ELSE prev - 2

\* prev => { if (prev <= 1) { ...; return 0; } return prev - 1; }
countDown(prev) == IF prev <= 1 THEN 0 ELSE prev - 1

\* QuizMode after the render of state q: mounted with its initial state, kept
\* with its handlers and its effect renewed, or unmounted with its interval
\* cleared.
commitQuizMode(q, qm) ==
    IF ~showsQuizMode(q) THEN unmounted
    ELSE IF qm.mounted
    THEN [qm EXCEPT !.captured = qm.isSubmitted,
                    !.interval = IF qm.captured = qm.isSubmitted THEN @
                                 ELSE q.quizTimer > 0 /\ ~qm.isSubmitted]
    ELSE [mounted |-> TRUE, remainingTime |-> q.quizTimer, isSubmitted |-> FALSE,
          captured |-> FALSE, interval |-> q.quizTimer > 0]

QuizInitial ==
    /\ quiz = quizInitial
    /\ quizMode = unmounted
    /\ rendered = renderedOf(quizInitial)
    /\ delivered = << >>

-----------------------------------------------------------------------------
(* The specifications: an input is drawn, the engine's functions are applied. *)

Init ==
    /\ gridSize = GRID_SIZE
    /\ maxHeight = MAX_HEIGHT
    /\ out = Normal(Null)
    /\ \/ /\ pc = "voxels"
          /\ voxels \in VoxelInputs
          /\ grids = emptyGrids
       \/ /\ pc = "grids"
          /\ voxels = << >>
          /\ grids \in GridInputs
    /\ EditorInitial
    /\ encoded = Chars("")
    /\ QuizInitial

\* Builds with other grid dimensions, on voxel lists within their bounds.
InitDims ==
    /\ gridSize \in 1..MaxDim
    /\ maxHeight \in 1..MaxDim
    /\ out = Normal(Null)
    /\ pc = "voxels"
    /\ voxels \in SeqsUpTo(VoxelsOver(0..(gridSize - 1), 0..(maxHeight - 1),
                                      0..(gridSize - 1)), MaxVoxels)
    /\ grids = emptyGrids
    /\ EditorInitial
    /\ encoded = Chars("")
    /\ QuizInitial

CalculateStats ==
    /\ pc = "voxels"
    /\ out' = Normal(calculateStats(voxels))
    /\ pc' = "stats"
    /\ UNCHANGED <<gridSize, maxHeight, voxels, grids, appVars, encoded, quizVars>>

Project3DTo2D ==
    /\ pc = "voxels"
    /\ out' = project3DTo2D(voxels)
    /\ grids' = IF out'.type = "normal" THEN out'.value ELSE grids
    /\ pc' = IF out'.type = "normal" THEN "projected" ELSE "threw"
    /\ UNCHANGED <<gridSize, maxHeight, voxels, appVars, encoded, quizVars>>

GenerateTopViewNumbers ==
    /\ pc = "voxels"
    /\ out' = generateTopViewNumbers(voxels)
    /\ pc' = "topNumbers"
    /\ UNCHANGED <<gridSize, maxHeight, voxels, grids, appVars, encoded, quizVars>>

GenerateFrontViewNumbers ==
    /\ pc = "voxels"
    /\ out' = Normal(generateFrontViewNumbers(voxels))
    /\ pc' = "frontNumbers"
    /\ UNCHANGED <<gridSize, maxHeight, voxels, grids, appVars, encoded, quizVars>>

GenerateSideViewNumbers ==
    /\ pc = "voxels"
    /\ out' = Normal(generateSideViewNumbers(voxels))
    /\ pc' = "sideNumbers"
    /\ UNCHANGED <<gridSize, maxHeight, voxels, grids, appVars, encoded, quizVars>>

\* On drawn silhouettes, or on the projections of the voxel list (the round trip).
Intersect2DTo3D ==
    /\ pc \in {"grids", "projected"}
    /\ out' = intersect2DTo3D(grids)
    /\ pc' = IF pc = "grids" THEN "reconstructed" ELSE "roundtrip"
    /\ UNCHANGED <<gridSize, maxHeight, voxels, grids, appVars, encoded, quizVars>>

Next ==
    \/ CalculateStats
    \/ Project3DTo2D
    \/ GenerateTopViewNumbers
    \/ GenerateFrontViewNumbers
    \/ GenerateSideViewNumbers
    \/ Intersect2DTo3D

Spec == Init /\ [][Next]_vars

SpecDims == InitDims /\ [][Next]_vars

-----------------------------------------------------------------------------
(* The editor's specification.  App renders right after each handler; the  *)
(* canvas tree is rendered by its own reconciler and keeps the props, and  *)
(* the handlers in them, of the render it was last committed with.         *)

\* Bounds of the editor's inputs.
MaxListed == 2
MaxPending == 2

\* The colors a click selects.
ColorInputs == {VOXEL_COLORS[1], VOXEL_COLORS[2]}
\* Ground cells a click lands on: two in the grid's corner, one past its edge.
GroundInputs == {<<0, 0>>, <<1, 0>>, <<GRID_SIZE, 0>>}
\* Face normals of a click on a voxel: its left face.
FaceInputs == {<<-1, 0, 0>>}
\* Blueprint cells a click toggles: the silhouettes of the voxel at the origin.
ToggleInputs ==
    {<<"top", 0, 0>>, <<"front", MAX_HEIGHT - 1, 0>>, <<"side", MAX_HEIGHT - 1, 0>>}

InitApp ==
    /\ gridSize = GRID_SIZE
    /\ maxHeight = MAX_HEIGHT
    /\ voxels = INITIAL_VOXELS
    /\ grids = emptyGrids
    /\ out = Normal(Null)
    /\ pc = "editor"
    /\ EditorInitial
    /\ encoded = Chars("")
    /\ QuizInitial

Invoke(op, at, view) ==
    /\ pending < MaxPending
    /\ pending' = pending + 1
    /\ request' = [op |-> op, at |-> at, view |-> view]
    /\ out' = Normal(Null)
    /\ UNCHANGED <<gridSize, maxHeight, grids, encoded, quizVars, pc>>

\* PlaneSelector.handleClick, onStageInteractAdd, handleAddVoxel.
ClickGround ==
    \E cell \in GroundInputs :
        /\ pc = "editor"
        /\ stageProps.mode = "3d-edit"
        /\ Len(voxels) < MaxListed
        /\ IF cell[1] >= 0 /\ cell[1] < gridSize /\ cell[2] >= 0 /\ cell[2] < gridSize
              /\ stageProps.tool = "build"
           THEN /\ voxels' = handleAddVoxel(stageProps, cell[1], 0, cell[2], voxels)
                /\ Invoke("addVoxel", <<cell[1], 0, cell[2]>>, "")
           ELSE /\ voxels' = voxels
                /\ Invoke("click", <<cell[1], 0, cell[2]>>, "")
        /\ UNCHANGED <<mode, tool, selectedColor, blueprint, rowIdentity, stageProps>>

\* VoxelMesh.handleClick on a voxel of the 3d-edit stage (a ghost of the blueprint stage
\* returns at once), onStageInteractAdd and handleAddVoxel, the onRemoveVoxel prop and
\* handleRemoveVoxel.
ClickVoxel ==
    \E i \in 1..Len(stageProps.voxels), normal \in FaceInputs :
        LET data == stageProps.voxels[i]
            x == data.x + normal[1]
            y == data.y + normal[2]
            z == data.z + normal[3]
        IN  /\ pc = "editor"
            /\ stageProps.mode = "3d-edit"
            /\ Len(voxels) < MaxListed \/ stageProps.tool = "erase"
            /\ IF stageProps.tool = "build"
               THEN /\ voxels' = handleAddVoxel(stageProps, x, y, z, voxels)
                    /\ Invoke("addVoxel", <<x, y, z>>, "")
               ELSE /\ voxels' = handleRemoveVoxel(stageProps, data.id, voxels)
                    /\ Invoke("removeVoxel", <<data.x, data.y, data.z>>, "")
            /\ UNCHANGED <<mode, tool, selectedColor, blueprint, rowIdentity, stageProps>>

\* ToolsPanel's mode switcher: setMode, the render it causes and the effect of that
\* render (App.tsx 140-144).
SetMode ==
    \E m \in {"3d-edit", "2d-blueprint"} :
        LET currentProjections == project3DTo2D(voxels)
        IN  /\ pc = "editor"
            /\ m # mode
            /\ mode' = m
            /\ IF currentProjections.type = "normal"
               THEN /\ blueprint' = modeEffect(mode, m, currentProjections.value, blueprint)
                    /\ rowIdentity' = IF m = "2d-blueprint" THEN mappedIdentity
                                      ELSE rowIdentity
                    /\ out' = Normal(Null)
               ELSE /\ UNCHANGED <<blueprint, rowIdentity>>
                    /\ out' = currentProjections
            /\ pending < MaxPending
            /\ pending' = pending + 1
            /\ request' = [op |-> "setMode", at |-> << >>, view |-> m]
            /\ UNCHANGED <<gridSize, maxHeight, grids, encoded, quizVars, pc, voxels, tool, selectedColor,
                           stageProps>>

\* ToolsPanel's tool buttons, shown in 3d-edit mode.
SetTool ==
    \E t \in {"build", "erase"} :
        /\ pc = "editor"
        /\ mode = "3d-edit"
        /\ t # tool
        /\ tool' = t
        /\ Invoke("setTool", << >>, t)
        /\ UNCHANGED <<voxels, mode, selectedColor, blueprint, rowIdentity, stageProps>>

\* ToolsPanel's color buttons.
SetSelectedColor ==
    \E color \in ColorInputs :
        /\ pc = "editor"
        /\ color # selectedColor \/ (mode = "3d-edit" /\ tool # "build")
        /\ selectedColor' = color
        /\ tool' = IF mode = "3d-edit" THEN "build" ELSE tool
        /\ Invoke("setSelectedColor", << >>, color)
        /\ UNCHANGED <<voxels, mode, blueprint, rowIdentity, stageProps>>

\* handleBlueprintToggle, from a Grid2D that is editable.
HandleBlueprintToggle ==
    \E cell \in ToggleInputs :
        LET view == cell[1]
            r == cell[2]
            c == cell[3]
        IN  /\ pc = "editor"
            /\ mode = "2d-blueprint"
            /\ blueprint' = [blueprint EXCEPT
                    ![view] = toggleMapped(blueprint[view], rowIdentity[view], r, c)]
            /\ rowIdentity' = [rowIdentity EXCEPT ![view] = mappedRows]
            /\ Invoke("toggle", <<r, c>>, view)
            /\ UNCHANGED <<voxels, mode, tool, selectedColor, stageProps>>

\* generateFromBlueprint, from the button shown in 2d-blueprint mode.
GenerateFromBlueprint ==
    LET coloredVoxels == generateFromBlueprint(blueprint, selectedColor)
    IN  /\ pc = "editor"
        /\ mode = "2d-blueprint"
        /\ IF coloredVoxels.type = "normal"
           THEN /\ voxels' = coloredVoxels.value
                /\ mode' = "3d-edit"
           ELSE UNCHANGED <<voxels, mode>>
        /\ pending < MaxPending
        /\ pending' = pending + 1
        /\ request' = [op |-> "generate", at |-> << >>, view |-> ""]
        /\ out' = IF coloredVoxels.type = "normal" THEN Normal(Null) ELSE coloredVoxels
        /\ UNCHANGED <<gridSize, maxHeight, grids, encoded, quizVars, pc, tool, selectedColor, blueprint,
                       rowIdentity, stageProps>>

\* clearAll, from ToolsPanel's clear button.
ClearAll ==
    /\ pc = "editor"
    /\ voxels' = clearAll.voxels
    /\ blueprint' = clearAll.blueprint
    /\ rowIdentity' = clearAll.rowIdentity
    /\ Invoke("clear", << >>, "")
    /\ UNCHANGED <<mode, tool, selectedColor, stageProps>>

\* The canvas tree commits the props of App's latest render.
StageCommit ==
    /\ pc = "editor"
    /\ pending > 0
    /\ stageProps' = stagePropsOf(voxels, mode, tool, selectedColor)
    /\ pending' = 0
    /\ UNCHANGED <<gridSize, maxHeight, voxels, grids, encoded, quizVars, out, pc, mode, tool, selectedColor,
                   blueprint, rowIdentity, request>>

\* Editing in 3D: every handler but the blueprint's toggle.
NextEdit ==
    \/ ClickGround
    \/ ClickVoxel
    \/ SetMode
    \/ SetTool
    \/ SetSelectedColor
    \/ GenerateFromBlueprint
    \/ ClearAll
    \/ StageCommit

SpecEdit == InitApp /\ [][NextEdit]_vars

\* Voxel lists the editor holds when a blueprint session starts.
BlueprintVoxelInputs ==
    {<< >>,
     <<colored(Voxel(0, 0, 0), voxelDefault)>>,
     <<colored(Voxel(1, 0, 0), voxelDefault)>>,
     <<colored(Voxel(0, 0, 0), voxelDefault), colored(Voxel(0, 1, 0), voxelDefault)>>}

InitBlueprint ==
    /\ gridSize = GRID_SIZE
    /\ maxHeight = MAX_HEIGHT
    /\ voxels \in BlueprintVoxelInputs
    /\ grids = emptyGrids
    /\ out = Normal(Null)
    /\ pc = "editor"
    /\ mode = "3d-edit"
    /\ tool = "build"
    /\ selectedColor = voxelDefault
    /\ blueprint = emptyGrids
    /\ rowIdentity = initialIdentity
    /\ stageProps = stagePropsOf(voxels, "3d-edit", "build", voxelDefault)
    /\ pending = 0
    /\ request = noRequest
    /\ encoded = Chars("")
    /\ QuizInitial

\* Blueprint sessions: the canvas is not clicked.
NextBlueprint ==
    \/ SetMode
    \/ SetSelectedColor
    \/ HandleBlueprintToggle
    \/ GenerateFromBlueprint
    \/ ClearAll
    \/ StageCommit

SpecBlueprint == InitBlueprint /\ [][NextBlueprint]_vars

-----------------------------------------------------------------------------
(* The share link's specification: a voxel list is encoded and the link    *)
(* decoded again, or a string found in the URL is decoded.                 *)

\* Colors a shared voxel holds: of the palette, none, or the empty string.
SharedColors == {JsStr(VOXEL_COLORS[1]), jsUndefined, JsStr("")}

\* Numbers a shared voxel's x holds; a link spelling 1e999 decodes to Infinity.
SharedNumbers == {JsNum(0), JsNum(GRID_SIZE - 1), jsInfinity}

SharedVoxel(x, y, z, color) ==
    [x |-> x, y |-> y, z |-> z, id |-> toText(x) \o "," \o toText(y) \o "," \o toText(z),
     color |-> color]

SharedVoxels ==
    {SharedVoxel(x, JsNum(0), JsNum(0), color) : x \in SharedNumbers, color \in SharedColors}
        \cup {SharedVoxel(JsNum(1), JsNum(2), JsNum(3), JsStr(VOXEL_COLORS[2]))}

SharedInputs ==
    UNION {[1..n -> SharedVoxels] : n \in 0..MaxVoxels}

\* Elements of a payload: records with, without and with an empty c, one without y and
\* z, a record with a string for x, one with 1e999 for x, and elements that
\* are no records.
ElementInputs ==
    {JsObj(JsNum(0), JsNum(0), JsNum(0), absent),
     JsObj(JsNum(1), JsNum(2), JsNum(3), JsStr(VOXEL_COLORS[1])),
     JsObj(JsNum(0), JsNum(0), JsNum(0), JsStr("")),
     JsObj(JsNum(1), absent, absent, absent),
     JsObj(JsStr("a"), JsNum(0), JsNum(0), absent),
     JsObj(jsonHuge, JsNum(0), JsNum(0), absent),
     JsAtom(JsNum(1)), JsAtom(JsStr("a")), JsAtom(jsNull)}

DocInputs ==
    {JsTop(JsAtom(JsNum(1))), JsTop(JsAtom(JsStr("a"))), JsTop(JsAtom(jsNull)),
     JsTop(JsObj(JsNum(0), JsNum(0), JsNum(0), absent))}
        \cup UNION {{JsArr(elements) : elements \in [1..n -> ElementInputs]} : n \in 0..MaxVoxels}

\* Strings found in the URL: no Base64, Base64 of a broken escape, of what is
\* no JSON, and of JSON texts, percent-encoded or free of '%'.
EncodedInputs ==
    {Chars(""), Chars("!"), Chars("%"), Base64(Chars("%")), Base64(Chars("hello")),
     Base64(Uri(Chars("hello"))), Json(JsArr(<< >>)), Uri(Json(JsArr(<< >>))),
     Base64(Json(JsArr(<< >>)))}
        \cup {Base64(Uri(Json(doc))) : doc \in DocInputs}

InitCodec ==
    /\ QuizInitial
    /\ gridSize = GRID_SIZE
    /\ maxHeight = MAX_HEIGHT
    /\ grids = emptyGrids
    /\ out = Normal(Null)
    /\ EditorInitial
    /\ \/ /\ pc = "voxels"
          /\ voxels \in SharedInputs
          /\ encoded = Chars("")
       \/ /\ pc = "encoded"
          /\ voxels = << >>
          /\ encoded \in EncodedInputs

\* generateQuizUrl: the puzzle parameter is encodeVoxels(voxels)
EncodeVoxels ==
    /\ pc = "voxels"
    /\ encoded' = encodeVoxels(voxels)
    /\ pc' = "shared"
    /\ UNCHANGED <<gridSize, maxHeight, voxels, grids, out, appVars, quizVars>>

\* parseQuizFromUrl: decodeVoxels of the puzzle parameter
DecodeVoxels ==
    /\ pc \in {"encoded", "shared"}
    /\ out' = Normal(decodeVoxels(encoded))
    /\ pc' = IF pc = "shared" THEN "roundtrip" ELSE "decoded"
    /\ UNCHANGED <<gridSize, maxHeight, voxels, grids, encoded, appVars, quizVars>>

NextCodec ==
    \/ EncodeVoxels
    \/ DecodeVoxels

SpecCodec == InitCodec /\ [][NextCodec]_vars

-----------------------------------------------------------------------------
(* The quiz's specification.  A click, a key or a form submission runs its *)
(* handler and the screen is rendered before the next event; what a timer  *)
(* tick updates is rendered by a later task (CommitQuiz), before which an  *)
(* event still meets the handlers of the screen as it was.  The buttons of *)
(* the header stay reachable by keyboard while the result modal is open.   *)

MaxTimer == 2

\* The timer parameter of the URL: absent, or the number it starts with.
TimerParams == {Null, Num(-1), Num(0), Num(1), Num(MaxTimer)}

AnswerInputs == {1, 2}

QuizVoxelInputs ==
    {<< >>,
     <<colored(Voxel(0, 0, 0), voxelDefault)>>,
     <<colored(Voxel(0, 0, 0), voxelDefault), colored(Voxel(1, 0, 0), voxelDefault)>>}

InitQuiz ==
    /\ gridSize = GRID_SIZE
    /\ maxHeight = MAX_HEIGHT
    /\ voxels \in QuizVoxelInputs
    /\ grids = emptyGrids
    /\ out = Normal(Null)
    /\ pc = "quiz"
    /\ mode = "3d-edit"
    /\ tool = "build"
    /\ selectedColor = voxelDefault
    /\ blueprint = emptyGrids
    /\ rowIdentity = initialIdentity
    /\ stageProps = stagePropsOf(voxels, "3d-edit", "build", voxelDefault)
    /\ pending = 0
    /\ request = noRequest
    /\ encoded = Chars("")
    /\ QuizInitial

\* An event of the quiz: request names it; the editor is left alone.
QuizEvent(op) ==
    /\ pc = "quiz"
    /\ request' = [op |-> op, at |-> << >>, view |-> ""]
    /\ UNCHANGED <<gridSize, maxHeight, voxels, grids, out, pc, encoded, mode, tool,
                   selectedColor, blueprint, rowIdentity, stageProps, pending>>

\* The state q is rendered, QuizMode having the state qm.
Commit(q, qm) ==
    /\ quiz' = q
    /\ quizMode' = commitQuizMode(q, qm)
    /\ rendered' = renderedOf(q)

\* The effect of App's first render: a puzzle parameter that decodes to a list
\* with a voxel starts a quiz with the timer of the URL.
LoadQuizFromUrl ==
    \E decodedVoxels \in QuizVoxelInputs, timerParam \in TimerParams :
        /\ request = noRequest
        /\ Len(decodedVoxels) > 0
        /\ Commit(loadQuiz(quiz, decodedVoxels, parseTimerFromUrl(timerParam)), quizMode)
        /\ delivered' = << >>
        /\ QuizEvent("loadQuiz")

\* The header's start button.
HandleStartQuiz ==
    /\ ~rendered.isQuizMode
    /\ Len(voxels) # 0
    /\ Commit(handleStartQuiz(quiz, voxels), quizMode)
    /\ delivered' = << >>
    /\ QuizEvent("startQuiz")

\* QuizMode's form: handleFormSubmit, handleSubmit, handleQuizSubmit.
FormSubmit ==
    \E numAnswer \in AnswerInputs :
        /\ quizMode.mounted
        /\ numAnswer > 0
        /\ submits(quizMode)
        /\ Commit(handleQuizSubmit(quiz, numAnswer), [quizMode EXCEPT !.isSubmitted = TRUE])
        /\ delivered' = Append(delivered, numAnswer)
        /\ QuizEvent("formSubmit")

\* A tick of QuizMode's interval: the updater of setRemainingTime, and from
\* it handleSubmit(0) when the time is up.
Tick ==
    LET prev == quizMode.remainingTime
        expired == prev <= 1
        goes == expired /\ submits(quizMode)
    IN  /\ quizMode.interval
        /\ quizMode' = [quizMode EXCEPT !.remainingTime = countDown(prev),
                                        !.interval = IF expired THEN FALSE ELSE @,
                                        !.isSubmitted = IF goes THEN TRUE ELSE @]
        /\ quiz' = IF goes THEN handleQuizSubmit(quiz, 0) ELSE quiz
        /\ delivered' = IF goes THEN Append(delivered, 0) ELSE delivered
        /\ UNCHANGED rendered
        /\ QuizEvent("tick")

\* The render of what a tick updated.
CommitQuiz ==
    /\ \/ rendered # renderedOf(quiz)
       \/ quizMode # commitQuizMode(quiz, quizMode)
    /\ Commit(quiz, quizMode)
    /\ UNCHANGED delivered
    /\ QuizEvent("render")

\* ResultModal's backdrop or the Escape key: onClose.
CloseResultModal ==
    /\ rendered.showResultModal
    /\ Commit([quiz EXCEPT !.showResultModal = FALSE], quizMode)
    /\ UNCHANGED delivered
    /\ QuizEvent("closeModal")

\* ResultModal's button: onReveal.
HandleRevealResult ==
    /\ rendered.showResultModal
    /\ Commit(handleRevealResult(quiz), quizMode)
    /\ UNCHANGED delivered
    /\ QuizEvent("reveal")

\* The header's back button, or QuizResult's onNewQuiz.
HandleExitQuizMode ==
    /\ rendered.isQuizMode
    /\ Commit(handleExitQuizMode(quiz), quizMode)
    /\ delivered' = << >>
    /\ QuizEvent("exit")

NextQuiz ==
    \/ LoadQuizFromUrl
    \/ HandleStartQuiz
    \/ FormSubmit
    \/ Tick
    \/ CommitQuiz
    \/ CloseResultModal
    \/ HandleRevealResult
    \/ HandleExitQuizMode

SpecQuiz == InitQuiz /\ [][NextQuiz]_vars

-----------------------------------------------------------------------------
(* Vocabulary of the properties. *)

Indices == 0..(GRID_SIZE - 1)
Heights == 0..(MAX_HEIGHT - 1)

\* The coordinates of a voxel list, as a set of triples.
CoordsOf(vs) == {<<vs[i].x, vs[i].y, vs[i].z>> : i \in 1..Len(vs)}

InBounds(vs) ==
    \A i \in 1..Len(vs) :
        vs[i].x \in Indices /\ vs[i].y \in Heights /\ vs[i].z \in Indices

DistinctCoords(vs) == Cardinality(CoordsOf(vs)) = Len(vs)

\* The smallest column (row) holding a true cell, -1 for an all-false grid.
ActiveColumns(grid) == {c \in Indices : \E r \in DOMAIN grid : grid[r][c]}
ActiveRows(grid) == {r \in DOMAIN grid : \E c \in Indices : grid[r][c]}
Least(S) == IF S = {} THEN -1 ELSE CHOOSE m \in S : \A n \in S : m <= n

TrueCells(grid) == {<<r, c>> \in (DOMAIN grid) \X Indices : grid[r][c]}

\* The shifts of the claims, from the least active columns and rows.
ShiftX(g) ==
    IF Least(ActiveColumns(g.top)) # -1 /\ Least(ActiveColumns(g.front)) # -1
    THEN Least(ActiveColumns(g.front)) - Least(ActiveColumns(g.top)) ELSE 0
ShiftZ(g) ==
    IF Least(ActiveRows(g.top)) # -1 /\ Least(ActiveColumns(g.side)) # -1
    THEN Least(ActiveColumns(g.side)) - Least(ActiveRows(g.top)) ELSE 0

Reconstructed == pc \in {"reconstructed", "roundtrip"}

-----------------------------------------------------------------------------
\* C1: intersect2DTo3D emits a voxel at (x, y, z) iff top[z][x] is true, x + shiftX is a
\* column of the grid and front[MAX_HEIGHT-1-y][x+shiftX] is true, and z + shiftZ is a
\* column of the grid and side[MAX_HEIGHT-1-y][z+shiftZ] is true; a shifted index
\* outside the grid counts as false and is never an error.
C1_IntersectEmitsIff ==
    Reconstructed =>
        /\ out.type = "normal"
        /\ \A x \in Indices, y \in Heights, z \in Indices :
            (<<x, y, z>> \in CoordsOf(out.value)) <=>
                /\ grids.top[z][x]
                /\ x + ShiftX(grids) \in Indices
                /\ grids.front[MAX_HEIGHT - 1 - y][x + ShiftX(grids)]
                /\ z + ShiftZ(grids) \in Indices
                /\ grids.side[MAX_HEIGHT - 1 - y][z + ShiftZ(grids)]
        /\ \A i \in 1..Len(out.value) :
            out.value[i].x \in Indices /\ out.value[i].y \in Heights
                /\ out.value[i].z \in Indices

\* C1 witness: a reconstruction that emits a voxel and rejects an occupied top cell
\* whose shifted front column lies outside the grid.
C1_Witness ==
    /\ pc = "reconstructed"
    /\ Len(out.value) > 0
    /\ \E x \in Indices, z \in Indices :
        /\ grids.top[z][x]
        /\ x + ShiftX(grids) \notin Indices
        /\ \A i \in 1..Len(out.value) : out.value[i].x # x

\* C2: the four starts are the least active column of top, front and side and the least
\* active row of top (-1 for an all-false grid), and each shift is the difference of its
\* two starts when both exist and 0 otherwise.
C2_Alignment ==
    LET a == alignment(grids)
    IN  /\ a.type = "normal"
        /\ a.value.minX_Top = Least(ActiveColumns(grids.top))
        /\ a.value.minZ_Top = Least(ActiveRows(grids.top))
        /\ a.value.minX_Front = Least(ActiveColumns(grids.front))
        /\ a.value.minZ_Side = Least(ActiveColumns(grids.side))
        /\ a.value.shiftX = ShiftX(grids)
        /\ a.value.shiftZ = ShiftZ(grids)

\* C2 witness: silhouettes reconstructed with positive shifts, the top view's first
\* active cell in row-major order not being in its least column.
C2_Witness ==
    /\ pc = "reconstructed"
    /\ alignment(grids).value.shiftX > 0
    /\ alignment(grids).value.shiftZ > 0
    /\ \E c \in Indices :
        /\ grids.top[Least(ActiveRows(grids.top))][c]
        /\ c > alignment(grids).value.minX_Top

\* C3: for an in-bounds voxel list, top[z][x] is true iff some voxel has that (x, z),
\* front[MAX_HEIGHT-1-y][x] iff some voxel has that (x, y), side[MAX_HEIGHT-1-y][z] iff
\* some voxel has that (z, y); every other cell is false.
C3_ProjectionCells ==
    (pc = "projected" /\ InBounds(voxels)) =>
        /\ \A z \in Indices, x \in Indices :
            grids.top[z][x] <=> \E i \in 1..Len(voxels) : voxels[i].x = x /\ voxels[i].z = z
        /\ \A y \in Heights, x \in Indices :
            grids.front[MAX_HEIGHT - 1 - y][x] <=>
                \E i \in 1..Len(voxels) : voxels[i].x = x /\ voxels[i].y = y
        /\ \A y \in Heights, z \in Indices :
            grids.side[MAX_HEIGHT - 1 - y][z] <=>
                \E i \in 1..Len(voxels) : voxels[i].z = z /\ voxels[i].y = y

\* C3 witness: two voxels stacked in one column are projected: one top cell, two front
\* cells and two side cells.
C3_Witness ==
    /\ pc = "projected"
    /\ Len(voxels) = 2
    /\ InBounds(voxels)
    /\ voxels[1].x = voxels[2].x /\ voxels[1].z = voxels[2].z /\ voxels[1].y # voxels[2].y
    /\ Cardinality(TrueCells(grids.top)) = 1
    /\ Cardinality(TrueCells(grids.front)) = 2
    /\ Cardinality(TrueCells(grids.side)) = 2

\* The face neighbours of a coordinate triple.
FaceNeighbours(p) ==
    {<<p[1] + 1, p[2], p[3]>>, <<p[1] - 1, p[2], p[3]>>, <<p[1], p[2] + 1, p[3]>>,
     <<p[1], p[2] - 1, p[3]>>, <<p[1], p[2], p[3] + 1>>, <<p[1], p[2], p[3] - 1>>}

ExposedPairs(V) == {pq \in V \X UNION {FaceNeighbours(p) : p \in V} :
                        pq[2] \in FaceNeighbours(pq[1]) /\ pq[2] \notin V}
AdjacentPairs(V) == {pq \in V \X V : pq[2] \in FaceNeighbours(pq[1])}

\* C4: for a voxel list of distinct coordinates, count = volume = |V| and surfaceArea is
\* the number of (voxel, face neighbour) pairs whose neighbour is not in V, that is
\* 6 * |V| - 2 * (unordered adjacent pairs); faces at y = 0 and on the border are exposed.
C4_Stats ==
    (pc = "stats" /\ DistinctCoords(voxels)) =>
        /\ out.value.count = Len(voxels)
        /\ out.value.volume = Len(voxels)
        /\ out.value.surfaceArea = Cardinality(ExposedPairs(CoordsOf(voxels)))
        /\ out.value.surfaceArea =
               6 * Len(voxels) - Cardinality(AdjacentPairs(CoordsOf(voxels)))
        /\ Len(voxels) = 1 => out.value.surfaceArea = 6

\* C4 witness: two face-adjacent voxels, one of them on the floor and on the border,
\* with surface area 10.
C4_Witness ==
    /\ pc = "stats"
    /\ Len(voxels) = 2
    /\ CoordsOf(voxels) = {<<0, 0, 0>>, <<1, 0, 0>>}
    /\ out.value = [count |-> 2, volume |-> 2, surfaceArea |-> 10]

Greatest(S) == CHOOSE m \in S : \A n \in S : m >= n

\* null for 0, the number otherwise.
Absent(n) == IF n = 0 THEN Null ELSE Num(n)

\* C5: for an in-bounds voxel list of distinct coordinates, the top number of (x, z) is
\* the greatest y + 1 of the column, the front number of (x, y) the number of voxels
\* with that (x, y), the side number of (z, y) the number of voxels with that (z, y);
\* a cell with value 0 is null, never 0.
C5_Numbers ==
    (InBounds(voxels) /\ DistinctCoords(voxels)) =>
        /\ pc = "topNumbers" =>
            /\ out.type = "normal"
            /\ \A z \in Indices, x \in Indices :
                LET hs == {voxels[i].y + 1 :
                              i \in {j \in 1..Len(voxels) : voxels[j].x = x /\ voxels[j].z = z}}
                IN  out.value[z][x] = IF hs = {} THEN Null ELSE Num(Greatest(hs))
        /\ pc = "frontNumbers" =>
            \A y \in Heights, x \in Indices :
                /\ out.value[MAX_HEIGHT - 1 - y][x] = Absent(Cardinality(
                       {i \in 1..Len(voxels) : voxels[i].x = x /\ voxels[i].y = y}))
                /\ out.value[MAX_HEIGHT - 1 - y][x] # Num(0)
        /\ pc = "sideNumbers" =>
            \A y \in Heights, z \in Indices :
                /\ out.value[MAX_HEIGHT - 1 - y][z] = Absent(Cardinality(
                       {i \in 1..Len(voxels) : voxels[i].z = z /\ voxels[i].y = y}))
                /\ out.value[MAX_HEIGHT - 1 - y][z] # Num(0)

\* C5 witness: a column whose upper voxel comes first in the list is annotated with the
\* height 2, every other cell being null.
C5_Witness ==
    /\ pc = "topNumbers"
    /\ voxels = <<Voxel(1, 1, 0), Voxel(1, 0, 0)>>
    /\ out.value[0][1] = Num(2)
    /\ \A z \in Indices, x \in Indices : <<z, x>> # <<0, 1>> => out.value[z][x] = Null

IsFullCube(vs) ==
    /\ Len(vs) = GRID_SIZE * MAX_HEIGHT * GRID_SIZE
    /\ CoordsOf(vs) = Indices \X Heights \X Indices

\* C6: the projections of the fully filled cube reconstruct to every coordinate of the
\* grid, each once.
C6_DenseRoundTrip ==
    (pc = "roundtrip" /\ IsFullCube(voxels)) =>
        /\ out.type = "normal"
        /\ IsFullCube(out.value)

\* C6 witness: the full cube has been projected to three all-true grids and reconstructed.
C6_Witness ==
    /\ pc = "roundtrip"
    /\ IsFullCube(voxels)
    /\ \A r \in Indices, c \in Indices :
        grids.top[r][c] /\ grids.front[r][c] /\ grids.side[r][c]
    /\ Len(out.value) = GRID_SIZE * MAX_HEIGHT * GRID_SIZE

\* C7: a single in-bounds voxel (x, y, z) projects to grids with exactly one true cell
\* each, top[z][x], front[MAX_HEIGHT-1-y][x] and side[MAX_HEIGHT-1-y][z], and these
\* grids reconstruct to exactly the voxel (x, y, z).
C7_SingleRoundTrip ==
    (pc \in {"projected", "roundtrip"} /\ Len(voxels) = 1 /\ InBounds(voxels)) =>
        LET v == voxels[1]
        IN  /\ TrueCells(grids.top) = {<<v.z, v.x>>}
            /\ TrueCells(grids.front) = {<<MAX_HEIGHT - 1 - v.y, v.x>>}
            /\ TrueCells(grids.side) = {<<MAX_HEIGHT - 1 - v.y, v.z>>}
            /\ pc = "roundtrip" =>
                /\ out.type = "normal"
                /\ Len(out.value) = 1
                /\ CoordsOf(out.value) = {<<v.x, v.y, v.z>>}

\* C7 witness: the voxel (2, 0, 2) reconstructed from its own projections.
C7_Witness ==
    /\ pc = "roundtrip"
    /\ voxels = <<Voxel(2, 0, 2)>>
    /\ grids.top[2][2] /\ grids.front[MAX_HEIGHT - 1][2] /\ grids.side[MAX_HEIGHT - 1][2]
    /\ out.value = <<Voxel(2, 0, 2)>>

AlignmentScenario ==
    /\ Least(ActiveColumns(grids.top)) = 1
    /\ Least(ActiveColumns(grids.front)) = 3
    /\ Least(ActiveColumns(grids.side)) = Least(ActiveRows(grids.top))

\* C8: when the least active column of top is 1, that of front is 3 and that of side is
\* the least active row of top, then shiftX = 2 and shiftZ = 0, and every voxel returned
\* has an x that is an active column of top (x >= 1) and is backed by front column x + 2.
C8_AlignmentScenario ==
    AlignmentScenario =>
        /\ alignment(grids).value.shiftX = 2
        /\ alignment(grids).value.shiftZ = 0
        /\ pc = "reconstructed" =>
            \A i \in 1..Len(out.value) :
                /\ out.value[i].x >= 1
                /\ out.value[i].x \in ActiveColumns(grids.top)
                /\ grids.front[MAX_HEIGHT - 1 - out.value[i].y][out.value[i].x + 2]

\* C8 witness: the scenario reconstructed to a voxel in column 1, front column 1 empty.
C8_Witness ==
    /\ pc = "reconstructed"
    /\ AlignmentScenario
    /\ \E i \in 1..Len(out.value) :
        out.value[i].x = 1 /\ ~grids.front[MAX_HEIGHT - 1 - out.value[i].y][1]

Rows(grid) == DOMAIN grid
Columns(grid) == UNION {{DOMAIN grid[r]} : r \in DOMAIN grid}

\* C9: for every pair of values of GRID_SIZE and MAX_HEIGHT, project3DTo2D returns top
\* with GRID_SIZE rows and columns and front and side with MAX_HEIGHT rows and GRID_SIZE
\* columns, the dimensions of the front numbers, and neither it nor intersect2DTo3D on
\* its grids reads or writes outside a grid.
C9_IndependentDimensions ==
    /\ pc # "threw"
    /\ pc = "projected" =>
        /\ Rows(grids.top) = 0..(gridSize - 1)
        /\ Rows(grids.front) = 0..(maxHeight - 1)
        /\ Rows(grids.side) = 0..(maxHeight - 1)
        /\ Rows(grids.front) = Rows(generateFrontViewNumbers(voxels))
        /\ Rows(grids.side) = Rows(generateSideViewNumbers(voxels))
        /\ \A view \in {"top", "front", "side"} :
            Columns(grids[view]) = {0..(gridSize - 1)}
    /\ pc = "roundtrip" => out.type = "normal"

\* C10: project3DTo2D never fails; in each grid a cell is true iff some voxel has both
\* indices of that cell, a voxel with an index outside that grid being skipped for that
\* grid alone, and every voxel sets at most one cell per grid.
C10_ProjectTolerant ==
    /\ pc # "threw"
    /\ pc = "projected" =>
        /\ \A r \in Indices, c \in Indices :
            /\ grids.top[r][c] <=>
                   \E i \in 1..Len(voxels) : voxels[i].z = r /\ voxels[i].x = c
            /\ grids.front[r][c] <=>
                   \E i \in 1..Len(voxels) :
                       MAX_HEIGHT - 1 - voxels[i].y = r /\ voxels[i].x = c
            /\ grids.side[r][c] <=>
                   \E i \in 1..Len(voxels) :
                       MAX_HEIGHT - 1 - voxels[i].y = r /\ voxels[i].z = c
        /\ \A view \in {"top", "front", "side"} :
            /\ Cardinality(TrueCells(grids[view])) <= Len(voxels)
            /\ Rows(grids[view]) = Indices
            /\ Columns(grids[view]) = {Indices}

\* C10 witness: a voxel with x and y in range and z out of range, after another voxel,
\* has marked front and neither top nor side.
C10_Witness ==
    /\ pc = "projected"
    /\ voxels = <<Voxel(GRID_SIZE, -1, 0), Voxel(0, 0, GRID_SIZE)>>
    /\ TrueCells(grids.top) = {}
    /\ TrueCells(grids.front) = {<<MAX_HEIGHT - 1, 0>>}
    /\ TrueCells(grids.side) = {}

-----------------------------------------------------------------------------
\* C11: intersect2DTo3D never fails: for every configuration of the three boolean grids
\* it returns a list of voxels whose coordinates are in bounds and pairwise distinct and
\* whose id is the string "x,y,z" of its coordinates; the list is empty whenever at least
\* one of the three grids is all-false.
C11_IntersectTotal ==
    Reconstructed =>
        /\ out.type = "normal"
        /\ InBounds(out.value)
        /\ DistinctCoords(out.value)
        /\ \A i \in 1..Len(out.value) :
            out.value[i].id = coordKey(out.value[i].x, out.value[i].y, out.value[i].z)
        /\ (\E view \in {"top", "front", "side"} : TrueCells(grids[view]) = {})
            => out.value = << >>

\* C11 witness: a reconstruction from an occupied top and an occupied front silhouette
\* and an all-false side silhouette, which returns the empty list.
C11_Witness ==
    /\ pc = "reconstructed"
    /\ TrueCells(grids.top) # {}
    /\ TrueCells(grids.front) # {}
    /\ TrueCells(grids.side) = {}
    /\ out.type = "normal"
    /\ out.value = << >>

-----------------------------------------------------------------------------
(* The editor's claims.  A step in which a handler runs raises pending by   *)
(* one and records the handler in request.                                 *)

Handled(op) == pending' = pending + 1 /\ request'.op = op

Occupied(vs, at) == <<at[1], at[2], at[3]>> \in CoordsOf(vs)
OutOfBounds(at) == at[1] \notin Indices \/ at[2] \notin Heights \/ at[3] \notin Indices
AllFalse(g) == \A view \in Views : TrueCells(g[view]) = {}

\* C12: in every reachable editor state, after any sequence and interleaving of add,
\* remove, clear and generate-from-blueprint requests, the voxel list never contains two
\* voxels with the same (x, y, z).
C12_Uniqueness == pc = "editor" => DistinctCoords(voxels)

\* C13: addVoxel(x, y, z) in 3d-edit mode leaves the voxel list unchanged and signals no
\* error when the coordinate is out of bounds; when the coordinate is in bounds and free
\* it appends exactly one voxel with those coordinates, id "x,y,z" and the currently
\* selected color, leaving every other voxel unchanged.
C13_AddVoxel ==
    [][(Handled("addVoxel") /\ mode = "3d-edit") =>
        LET at == request'.at
        IN  /\ out'.type = "normal"
            /\ OutOfBounds(at) => voxels' = voxels
            /\ (~OutOfBounds(at) /\ ~Occupied(voxels, at)) =>
                voxels' = Append(voxels,
                    [x |-> at[1], y |-> at[2], z |-> at[3],
                     id |-> coordKey(at[1], at[2], at[3]), color |-> selectedColor])]_vars

\* C14: removeVoxel(id) in 3d-edit mode removes exactly the voxel whose coordinates form
\* that id and leaves every other voxel, and their order, unchanged; when no voxel has
\* that id the list is unchanged; every voxel of the list has the id "x,y,z" of its own
\* coordinates in every reachable state.
C14_RemoveVoxel ==
    /\ [](\A i \in 1..Len(voxels) :
            voxels[i].id = coordKey(voxels[i].x, voxels[i].y, voxels[i].z))
    /\ [][(Handled("removeVoxel") /\ mode = "3d-edit") =>
            /\ voxels' = SelectSeq(voxels,
                            LAMBDA v : <<v.x, v.y, v.z>> # request'.at)
            /\ ~Occupied(voxels, request'.at) => voxels' = voxels]_vars

\* C14 witness: the canvas showed two voxels, the handler ran alone since and removed
\* one of them, the other is still listed.
C14_Witness ==
    /\ request.op = "removeVoxel"
    /\ mode = "3d-edit"
    /\ pending = 1
    /\ Len(stageProps.voxels) = 2
    /\ Occupied(stageProps.voxels, request.at)
    /\ Len(voxels) = 1
    /\ ~Occupied(voxels, request.at)

\* C15: clear(), from any editor state and in either mode, leaves the voxel list empty
\* and all three blueprint grids all-false, and does not change the mode.
C15_Clear ==
    [][Handled("clear") => (voxels' = << >> /\ AllFalse(blueprint') /\ mode' = mode)]_vars

\* C15 witness: clear ran alone since the canvas showed a voxel, in 2d-blueprint mode.
C15_Witness ==
    /\ request.op = "clear"
    /\ mode = "2d-blueprint"
    /\ pending = 1
    /\ stageProps.voxels # << >>
    /\ voxels = << >>
    /\ AllFalse(blueprint)

\* A string that is the Base64 of a JSON text, percent-encoded or free of '%',
\* spelling an array of records with numeric x, y and z.
HasPayload(s) == s.layers \in {<<"base64", "uri", "json">>, <<"base64", "json">>}

NumericRecord(d) ==
    /\ d.self.kind = "object"
    /\ \A k \in {"x", "y", "z"} : d[k].kind \in {"number", "literal"}

WellFormedLink(s) ==
    /\ HasPayload(s)
    /\ isArray(s.doc)
    /\ \A i \in 1..Len(s.doc.items) : NumericRecord(s.doc.items[i])

\* C16: decodeVoxels returns null for every malformed string and for every payload
\* that is not an array of records with numeric x, y and z; no exception escapes
\* it, and a list it returns holds only voxels with numeric x, y and z.
C16_DecodeFailure ==
    pc = "decoded" =>
        /\ out.type = "normal"
        /\ ~WellFormedLink(encoded) => out.value = nullVoxels
        /\ \A i \in 1..Len(out.value.list) :
              /\ isNumber(out.value.list[i].x)
              /\ isNumber(out.value.list[i].y)
              /\ isNumber(out.value.list[i].z)

\* C17: for every voxel list V, decodeVoxels(encodeVoxels(V)) has the length and
\* order of V, its i-th voxel has the x, y, z and color of the i-th voxel of V, and
\* its id is the coordinates joined by commas.
C17_RoundTrip ==
    pc = "roundtrip" =>
        /\ out.type = "normal"
        /\ out.value.kind = "array"
        /\ Len(out.value.list) = Len(voxels)
        /\ \A i \in 1..Len(voxels) :
              LET d == out.value.list[i]
              IN  /\ d.x = voxels[i].x
                  /\ d.y = voxels[i].y
                  /\ d.z = voxels[i].z
                  /\ d.color = voxels[i].color
                  /\ d.id = toText(d.x) \o "," \o toText(d.y) \o "," \o toText(d.z)

\* C18: while the mode is 2d-blueprint, the voxel set used for the 3D display and for
\* the displayed statistics equals intersect2DTo3D(blueprint).
C18_BlueprintIsSource ==
    (pc = "editor" /\ mode = "2d-blueprint") =>
        /\ stageVoxels = intersect2DTo3D(blueprint).value
        /\ stats = calculateStats(intersect2DTo3D(blueprint).value)

\* C19: toggling blueprint cell (r, c) of one view flips exactly that cell and leaves
\* every other cell of that view and both other views unchanged, also when the rows of
\* the grid are one replicated row; toggling the same cell twice restores the blueprint.
C19_Toggle ==
    [][Handled("toggle") =>
        LET view == request'.view
            r == request'.at[1]
            c == request'.at[2]
        IN  /\ \A v \in Views, rIdx \in Indices, cIdx \in Indices :
                blueprint'[v][rIdx][cIdx] =
                    IF v = view /\ rIdx = r /\ cIdx = c
                    THEN ~blueprint[v][rIdx][cIdx] ELSE blueprint[v][rIdx][cIdx]
            /\ toggleMapped(blueprint'[view], rowIdentity'[view], r, c) = blueprint[view]]_vars

\* C19 witness: a cell of the top grid was toggled to true after a clear, the front grid
\* still being the cleared grid of one replicated row.
C19_Witness ==
    /\ request.op = "toggle"
    /\ request.view = "top"
    /\ TrueCells(blueprint.top) = {<<request.at[1], request.at[2]>>}
    /\ rowIdentity.front = replicatedRows
    /\ rowIdentity.top = mappedRows

\* C20: whenever the mode changes from 3d-edit to 2d-blueprint, the blueprint is
\* replaced by project3DTo2D(voxels) of the voxel list at that moment, and no blueprint
\* toggle is applied before that.
C20_SyncOnEntry ==
    [][/\ (mode = "3d-edit" /\ mode' = "2d-blueprint") =>
            blueprint' = project3DTo2D(voxels').value
       /\ Handled("toggle") => mode = "2d-blueprint"]_vars

\* C20 witness: blueprint mode was entered with voxels listed and the blueprint is
\* their projection.
C20_Witness ==
    /\ request.op = "setMode"
    /\ mode = "2d-blueprint"
    /\ voxels # << >>
    /\ TrueCells(blueprint.top) # {}
    /\ blueprint = project3DTo2D(voxels).value

\* C21: generate-from-blueprint replaces the voxel list by intersect2DTo3D(blueprint),
\* in its order and every voxel in the selected color, sets the mode to 3d-edit and
\* leaves the blueprint as it is; a voxel listed before is listed after only at a
\* coordinate the blueprint reconstructs.
C21_Generate ==
    [][Handled("generate") =>
          LET newVoxels == intersect2DTo3D(blueprint).value
          IN  /\ Len(voxels') = Len(newVoxels)
              /\ \A i \in 1..Len(newVoxels) :
                    /\ voxels'[i].x = newVoxels[i].x
                    /\ voxels'[i].y = newVoxels[i].y
                    /\ voxels'[i].z = newVoxels[i].z
                    /\ voxels'[i].id = newVoxels[i].id
                    /\ voxels'[i].color = selectedColor
              /\ CoordsOf(voxels) \cap CoordsOf(voxels') \subseteq CoordsOf(newVoxels)
              /\ mode' = "3d-edit"
              /\ blueprint' = blueprint
              /\ selectedColor' = selectedColor]_vars

\* C21 witness: a list was generated in a color other than the default, from a
\* blueprint that reconstructs some but not all of the voxels listed before.
C21_Witness ==
    /\ request.op = "generate"
    /\ pending = 1
    /\ mode = "3d-edit"
    /\ voxels # << >>
    /\ selectedColor # voxelDefault
    /\ \A i \in 1..Len(voxels) : voxels[i].color = selectedColor
    /\ CoordsOf(stageProps.voxels) \ CoordsOf(voxels) # {}
    /\ CoordsOf(stageProps.voxels) \cap CoordsOf(voxels) # {}

-----------------------------------------------------------------------------
(* The quiz's claims. *)

\* C22: the quiz state becomes 'revealed' only from 'correct' or 'incorrect', these
\* are set only by a submission of the current quiz session, and the result screen
\* with the 3D model is on the screen only in a session in which an answer was
\* submitted, over every sequence of start, load, submit, close, reveal and exit.
C22_RevealAfterAnswer ==
    [][/\ (quiz'.quizState = "revealed" /\ quiz.quizState # "revealed") =>
              quiz.quizState \in {"correct", "incorrect"}
       /\ (quiz'.quizState \in {"correct", "incorrect"} /\ quiz'.quizState # quiz.quizState) =>
              delivered' = Append(delivered, quiz'.userAnswer)
       /\ showsQuizResult(rendered') => delivered' # << >>]_vars

\* A step of the timer, and a step in which an answer reaches onSubmit.
Ticked == request'.op = "tick" /\ quizMode' # quizMode
Delivered == Len(delivered') = Len(delivered) + 1
Last(answers) == answers[Len(answers)]

\* C23: with a time limit T > 0 and no user submission the remaining time starts at
\* T, a tick lowers it by exactly 1, it is never below 0, and the tick that brings it
\* to 0 submits the answer 0; with the time limit 0 there is no tick and no automatic
\* submission.
C23_Timer ==
    [][/\ (quizMode'.mounted /\ ~quizMode.mounted) =>
              /\ quizMode'.remainingTime = quiz'.quizTimer
              /\ quizMode'.interval = (quiz'.quizTimer > 0)
       /\ quizMode'.remainingTime >= 0
       /\ Ticked =>
              /\ quiz.quizTimer > 0
              /\ quizMode'.remainingTime = quizMode.remainingTime - 1
              /\ IF quizMode'.remainingTime = 0
                 THEN /\ delivered' = Append(delivered, 0)
                      /\ quiz'.userAnswer = 0
                      /\ quiz'.quizState = "incorrect"
                      /\ ~quizMode'.interval
                 ELSE /\ delivered' = delivered
                      /\ quiz' = quiz
       /\ (Delivered /\ quiz.quizTimer = 0) => request'.op = "formSubmit"]_vars

\* C23 witness: the time limit ran from its start to 0 tick by tick and the answer 0
\* was submitted by the last tick.
C23_Witness ==
    /\ request.op = "tick"
    /\ quiz.quizTimer = MaxTimer
    /\ quizMode.remainingTime = 0
    /\ delivered = <<0>>
    /\ quiz.quizState = "incorrect"

\* C24: submitting the answer a sets the quiz state to 'correct' iff a is the number
\* of voxels of the quiz and to 'incorrect' otherwise, records a as the user answer
\* and opens the result modal; in every later state of the session the correctness
\* the result modal and the result screen show, userAnswer = number of quiz voxels,
\* agrees with the state set at the submission.
C24_Submission ==
    [][/\ Delivered =>
              /\ quiz'.userAnswer = Last(delivered')
              /\ quiz'.showResultModal
              /\ quiz'.quizState = IF Last(delivered') = Len(quiz.quizVoxels)
                                   THEN "correct" ELSE "incorrect"
       /\ delivered' # << >> =>
              /\ quiz'.isQuizMode
              /\ quiz'.quizState \in {"correct", "incorrect", "revealed"}
              /\ quiz'.quizVoxels = quiz.quizVoxels
              /\ quiz'.userAnswer = Last(delivered')
              /\ quiz'.quizState = "correct" => quiz'.userAnswer = Len(quiz'.quizVoxels)
              /\ quiz'.quizState = "incorrect" => quiz'.userAnswer # Len(quiz'.quizVoxels)
              /\ (quiz.quizState = "correct" /\ delivered' = delivered) =>
                     quiz'.quizState \in {"correct", "revealed"}
              /\ (quiz.quizState = "incorrect" /\ delivered' = delivered) =>
                     quiz'.quizState \in {"incorrect", "revealed"}]_vars

\* C24 witness: the result screen is shown after a right answer.
C24_Witness ==
    /\ showsQuizResult(rendered)
    /\ delivered # << >>
    /\ quiz.userAnswer = Len(quiz.quizVoxels)
    /\ quiz.userAnswer = Last(delivered)

\* C27: in a quiz session onSubmit is invoked at most once, over every interleaving
\* of a form submission and timer ticks, the tick on which the time runs out among
\* them.
C27_DeliveredOnce == Len(delivered) <= 1

\* C28: generateTopViewNumbers, generateFrontViewNumbers and generateSideViewNumbers
\* return a grid for every voxel list, without an error, and a voxel with a coordinate
\* outside the grid is skipped as project3DTo2D skips it: a cell holds a number only
\* where a voxel has both indices of the cell.
C28_NumbersTolerant ==
    /\ pc = "topNumbers" =>
          /\ out.type = "normal"
          /\ \A r \in Indices, c \in Indices :
                out.value[r][c] # Null =>
                    \E i \in 1..Len(voxels) : voxels[i].z = r /\ voxels[i].x = c
    /\ pc = "frontNumbers" =>
          /\ out.type = "normal"
          /\ \A r \in Heights, c \in Indices :
                out.value[r][c] # Null <=>
                    \E i \in 1..Len(voxels) :
                        MAX_HEIGHT - 1 - voxels[i].y = r /\ voxels[i].x = c
    /\ pc = "sideNumbers" =>
          /\ out.type = "normal"
          /\ \A r \in Heights, c \in Indices :
                out.value[r][c] # Null <=>
                    \E i \in 1..Len(voxels) :
                        MAX_HEIGHT - 1 - voxels[i].y = r /\ voxels[i].z = c

-----------------------------------------------------------------------------
(* The round trip and the drift of a silhouette. *)

\* C25: for every in-bounds voxel list both shifts computed from its projections are
\* 0 and the reconstruction from its projections holds every voxel of the list.
C25_ProjectThenIntersect ==
    (pc = "roundtrip" /\ InBounds(voxels)) =>
        /\ alignment(grids).type = "normal"
        /\ alignment(grids).value.shiftX = 0
        /\ alignment(grids).value.shiftZ = 0
        /\ out.type = "normal"
        /\ CoordsOf(voxels) \subseteq CoordsOf(out.value)

\* C25 witness: two voxels away from column 0, in different columns and rows of the
\* top view, are both in the reconstruction from their projections.
C25_Witness ==
    /\ pc = "roundtrip"
    /\ InBounds(voxels)
    /\ Len(voxels) = 2
    /\ voxels[1].x # voxels[2].x
    /\ voxels[1].z # voxels[2].z
    /\ Least(ActiveColumns(grids.top)) > 0
    /\ CoordsOf(voxels) \subseteq CoordsOf(out.value)

\* The grid with every true cell moved k columns sideways, and whether the move
\* keeps every true cell inside the grid.
Drifted(grid, k) ==
    [r \in DOMAIN grid |-> [c \in DOMAIN grid[r] |->
        (c - k) \in DOMAIN grid[r] /\ grid[r][c - k]]]
DriftKeeps(grid, k) == \A cell \in TrueCells(grid) : cell[2] + k \in Indices
Drifts == (1 - GRID_SIZE)..(GRID_SIZE - 1)

\* C26: moving every true cell of the front silhouette, or of the side silhouette, k
\* columns sideways without pushing one outside the grid leaves the reconstruction as
\* it is, for every top, front, side and k.
C26_DriftInvariant ==
    pc = "reconstructed" =>
        /\ out.type = "normal"
        /\ \A k \in Drifts :
              /\ DriftKeeps(grids.front, k) =>
                    intersect2DTo3D([grids EXCEPT !.front = Drifted(grids.front, k)]) = out
              /\ DriftKeeps(grids.side, k) =>
                    intersect2DTo3D([grids EXCEPT !.side = Drifted(grids.side, k)]) = out

\* C26 witness: a reconstruction with voxels from a front silhouette that starts two
\* columns right of the top silhouette and can be moved a column to the left.
C26_Witness ==
    /\ pc = "reconstructed"
    /\ out.type = "normal"
    /\ out.value # << >>
    /\ ShiftX(grids) = 2
    /\ DriftKeeps(grids.front, -1)
    /\ intersect2DTo3D([grids EXCEPT !.front = Drifted(grids.front, -1)]) = out

====
